---- MODULE Spec2Model ----
(***************************************************************************)
(* Model of verification_sim.py: the Monte Carlo distance sweep            *)
(* run_simulation() and the path-loss function it calls.                   *)
(*                                                                         *)
(* Configuration.  Lengths are in metres, as in the source: the station    *)
(* height is 33, the cluster spread 1200 and the sweep runs from 0 to      *)
(* 4000.  The source fixes the sizing constants when the module is loaded  *)
(* (80 stations, 200 iterations, 50 distance samples); the model keeps     *)
(* them in variables that are set in Init and never change, and explores   *)
(* the sizes up to MaxN, MaxK and MaxM.                                    *)
(*                                                                         *)
(* Units.  The attenuation is counted in units of 1 / kappa and a power in *)
(* units of Pt / kappa, so that kappa and Pt are both 1 in the formulas;   *)
(* every received power, the noise floor and hence every SINR keep the     *)
(* source's proportions, and a flux is the source's divided by Pt.  A      *)
(* finite double is the nearest whole number of quanta, the quantum being  *)
(* one millionth of the noise floor: 1 / AttenuationScale of the unit,     *)
(* with AttenuationScale = 10^6 * Pt / (kappa * sigma^2) for the source's  *)
(* kappa (l. 8), Pt (l. 11) and sigma^2 (l. 16).  The formulas are those   *)
(* of the source, evaluated in that order; an operation that does not give *)
(* a whole number of quanta (the power law, the product with 1 / (4 pi),   *)
(* the mean) is rounded to the nearest quantum from its exact value.       *)
(*                                                                         *)
(* Rounding.  A double has 53 significant bits.  A sum or a difference of  *)
(* doubles is rounded to the nearest double, a tie to the even mantissa    *)
(* (RoundToDouble); np.sum adds an array of fewer than 8 elements from     *)
(* left to right and rounds after every addition; the quotient of line 66  *)
(* is rounded before it is compared with the threshold.  Every magnitude   *)
(* that Spec and SpecAnyConfig reach is below 2^53 quanta, so that there   *)
(* the sums and differences of whole quanta are exact.  In SpecAnyPowers   *)
(* the received powers are given instead of computed, and they are given   *)
(* as doubles: the unit is 2^-94 W, the unit in the last place of the      *)
(* noise floor (NOISE_FLOOR_WATTS = NoiseFloorDouble * 2^-94 W, with a     *)
(* mantissa of 53 bits), so that total, strongest, interference, the SINR  *)
(* denominator and the decision of lines 60-69 are the source's to the     *)
(* last bit; the flux stays rounded to the nearest unit.                   *)
(*                                                                         *)
(* Numbers.  A double is a record [k, neg, v]: k = "fin" with sign neg and *)
(* magnitude v, or one of the special values k = "inf" (+infinity),        *)
(* k = "ninf" (-infinity) and k = "nan", for which the operators follow    *)
(* the IEEE rules (inf - inf = nan, x / 0 = inf, nan > t is false).  The   *)
(* magnitudes exceed the checker's 32-bit integers; a magnitude is the     *)
(* sequence of its digits in base DigitBase, least significant first.      *)
(*                                                                         *)
(* Randomness.  np.random.normal(0, spread, N) returns spread * z for N    *)
(* standard normal deviates z; the source never seeds the generator, so a  *)
(* draw is a nondeterministic choice of each z.  The model draws z from    *)
(* the whole numbers -1 .. MaxDeviate; the deviates in between are not     *)
(* explored.                                                               *)
(*                                                                         *)
(* Specifications.  Spec runs the sweep on the configurations it is        *)
(* written for; SpecAnyConfig also on sizes that are zero or negative and  *)
(* on a station height or spread of 0; SpecAnyPowers applies lines 60-74   *)
(* to received powers that are given as the doubles level * noise floor,   *)
(* the range in which the coverage decision changes.                       *)
(***************************************************************************)
EXTENDS Integers, Sequences, FiniteSets, TLC

\* ---------------------------------------------------------------- bounds
MaxN == 3
MaxK == 2
MaxM == 2
\* N * K * M, the stations drawn in one run, is at most MaxDraws
MaxDraws == 6
MaxDeviate == 0
\* the received powers of SpecAnyPowers, in multiples of the noise floor
MaxPowerLevel == 2

\* ------------------------------------------------------ program constants
\* kappa = (4 pi f / c)^2: the attenuation is counted in units of 1 / kappa
PATH_LOSS_CONSTANT_KAPPA == 1
\* Pt: a power is counted in units of Pt / kappa
TRANSMIT_POWER_WATTS == 1
\* sigma^2, in power quanta
NOISE_FLOOR_WATTS == 1000000
\* BASE_STATION_HEIGHT_METERS of the source
ReferenceHeight == 33
\* CITY_DISTRIBUTION_SPREAD_METERS of the source
ReferenceSpread == 1200
\* alpha / 2 = 3.2 / 2 = 8 / 5
AlphaHalfNum == 8
AlphaHalfDen == 5
\* coverage threshold 0.5 = 1 / 2
ThresholdNum == 1
ThresholdDen == 2
\* np.linspace(0, stop, count): stop
SweepStop == 4000
\* base of the digit sequences
DigitBase == 10000
\* sigma^2 as the double it is, in units of 2^-94 W:
\* 10 ** -12.621 = 0x1.0d76a14c63997p-42 = 4740450242410903 * 2^-94
NoiseFloorDouble == << 903, 4241, 4502, 4740 >>
\* 2^53 = 9007199254740992: a double has 53 significant bits
TwoTo53 == << 992, 5474, 1992, 9007 >>
\* quanta per unit: 10^6 * Pt / (kappa * sigma^2) = 1328519966557698320
AttenuationScale == << 8320, 5769, 9665, 8519, 132 >>
\* 1 / (4 pi) = InverseFourPi / DigitBase^InverseFourPiDigits, to the
\* nearest: 10^16 / (4 pi) = 795774715459477
InverseFourPi == << 9477, 1545, 7747, 795 >>
InverseFourPiDigits == 4

\* standard normal deviates a draw can return
Deviates == (0 - 1)..MaxDeviate

\* The last five variables record history and are read by no action's
\* guard: trial holds the draw and the values of the latest iteration of the
\* inner loop, trial_log the distance, success flag and flux of every trial
\* of the current distance, result_sources the distances whose trials fed
\* each result, and the two counters the draws and trials so far.
VARIABLES
    NUMBER_OF_BASE_STATIONS,
    NUMBER_OF_MONTE_CARLO_ITERATIONS,
    NUMBER_OF_DISTANCE_SAMPLES,
    BASE_STATION_HEIGHT_METERS,
    CITY_DISTRIBUTION_SPREAD_METERS,
    pc,
    error,
    user_distances_from_center,
    distance_index,
    current_user_distance,
    trial_index,
    monte_carlo_flux_samples,
    monte_carlo_successful_connections,
    mean_emf_flux_density_results,
    coverage_probability_results,
    trial,
    trial_log,
    result_sources,
    topologies_drawn,
    trials_run

vars == << NUMBER_OF_BASE_STATIONS, NUMBER_OF_MONTE_CARLO_ITERATIONS,
           NUMBER_OF_DISTANCE_SAMPLES, BASE_STATION_HEIGHT_METERS,
           CITY_DISTRIBUTION_SPREAD_METERS, pc, error, user_distances_from_center, distance_index,
           current_user_distance, trial_index, monte_carlo_flux_samples,
           monte_carlo_successful_connections,
           mean_emf_flux_density_results, coverage_probability_results,
           trial, trial_log, result_sources, topologies_drawn, trials_run >>

config == << NUMBER_OF_BASE_STATIONS, NUMBER_OF_MONTE_CARLO_ITERATIONS,
             NUMBER_OF_DISTANCE_SAMPLES, BASE_STATION_HEIGHT_METERS,
             CITY_DISTRIBUTION_SPREAD_METERS >>

\* ----------------------------------------------------- natural magnitudes
\* A magnitude is the sequence of its digits in base DigitBase, the least
\* significant first, without a leading zero (the empty sequence is 0).
RECURSIVE BigDigits(_)
BigDigits(n) ==
    IF n = 0 THEN << >>
    ELSE << n % DigitBase >> \o BigDigits(n \div DigitBase)

\* a without leading zeros
RECURSIVE BigTrim(_)
BigTrim(a) ==
    IF a = << >> THEN a
    ELSE IF a[Len(a)] = 0 THEN BigTrim(SubSeq(a, 1, Len(a) - 1))
    ELSE a

\* a + b + carry
RECURSIVE BigAddCarry(_, _, _)
BigAddCarry(a, b, carry) ==
    IF a = << >> /\ b = << >> THEN BigDigits(carry)
    ELSE IF carry = 0 /\ b = << >> THEN a
    ELSE IF carry = 0 /\ a = << >> THEN b
    ELSE LET t == (IF a = << >> THEN 0 ELSE Head(a))
                  + (IF b = << >> THEN 0 ELSE Head(b)) + carry
         IN << t % DigitBase >>
                \o BigAddCarry(IF a = << >> THEN a ELSE Tail(a),
                               IF b = << >> THEN b ELSE Tail(b),
                               t \div DigitBase)

\* a + b
BigAdd(a, b) == BigAddCarry(a, b, 0)

\* the digits of a - b - borrow for a >= b + borrow, leading zeros included
RECURSIVE BigSubBorrow(_, _, _)
BigSubBorrow(a, b, borrow) ==
    IF a = << >> THEN << >>
    ELSE LET t == Head(a) - (IF b = << >> THEN 0 ELSE Head(b)) - borrow
         IN << (t + DigitBase) % DigitBase >>
                \o BigSubBorrow(Tail(a), IF b = << >> THEN b ELSE Tail(b),
                                IF t < 0 THEN 1 ELSE 0)

\* a - b for a >= b
BigSub(a, b) == BigTrim(BigSubBorrow(a, b, 0))

\* the digits of a * m + carry for a small natural m >= 1
RECURSIVE BigTimesCarry(_, _, _)
BigTimesCarry(a, m, carry) ==
    IF a = << >> THEN BigDigits(carry)
    ELSE LET t == Head(a) * m + carry
         IN << t % DigitBase >> \o BigTimesCarry(Tail(a), m, t \div DigitBase)

\* a * m for a small natural m
BigTimes(a, m) ==
    IF m = 0 THEN << >> ELSE IF m = 1 THEN a ELSE BigTimesCarry(a, m, 0)

\* column k of the long multiplication of a by b: the sum of a[i] * b[j]
\* over i + j = k + 1, from index i of a upwards
RECURSIVE BigColumn(_, _, _, _)
BigColumn(a, b, k, i) ==
    IF i > Len(a) \/ i > k THEN 0
    ELSE a[i] * b[k + 1 - i] + BigColumn(a, b, k, i + 1)

\* the digits of a * b from column k upwards, carry being the carry of the
\* columns below
RECURSIVE BigMulFrom(_, _, _, _)
BigMulFrom(a, b, k, carry) ==
    IF k > Len(a) + Len(b) - 1 THEN BigDigits(carry)
    ELSE LET first == IF k > Len(b) THEN k + 1 - Len(b) ELSE 1
             t == BigColumn(a, b, k, first) + carry
         IN << t % DigitBase >> \o BigMulFrom(a, b, k + 1, t \div DigitBase)

\* a * b
BigMul(a, b) ==
    IF a = << >> \/ b = << >> THEN << >> ELSE BigMulFrom(a, b, 1, 0)

\* a^n
RECURSIVE BigPower(_, _)
BigPower(a, n) == IF n = 0 THEN << 1 >> ELSE BigMul(BigPower(a, n - 1), a)

\* a <= b for digit sequences of the same length, from digit i downwards
RECURSIVE BigLeqFrom(_, _, _)
BigLeqFrom(a, b, i) ==
    IF i = 0 THEN TRUE
    ELSE IF a[i] # b[i] THEN a[i] < b[i]
    ELSE BigLeqFrom(a, b, i - 1)

\* a <= b
BigLeq(a, b) ==
    IF Len(a) # Len(b) THEN Len(a) < Len(b) ELSE BigLeqFrom(a, b, Len(a))

\* a < b
BigLess(a, b) == ~BigLeq(b, a)

\* quotient digits (leading zeros included) and remainder of a by a small m
RECURSIVE BigDivMod(_, _)
BigDivMod(a, m) ==
    IF a = << >> THEN [q |-> << >>, r |-> 0]
    ELSE LET rest == BigDivMod(Tail(a), m)
             t == rest.r * DigitBase + Head(a)
         IN [q |-> << t \div m >> \o rest.q, r |-> t % m]

\* a \div m for a small natural m >= 1
BigDivSmall(a, m) == BigTrim(BigDivMod(a, m).q)

\* a / m rounded to the nearest whole number
BigDivRound(a, m) == BigDivSmall(BigAdd(BigTimes(a, 2), BigDigits(m)), 2 * m)

\* a / DigitBase^n rounded to the nearest whole number
BigShiftRound(a, n) ==
    IF Len(a) < n THEN << >>
    ELSE BigAdd(SubSeq(a, n + 1, Len(a)),
                IF 2 * a[n] >= DigitBase THEN << 1 >> ELSE << >>)

\* q * 2^k
RECURSIVE BigDoubled(_, _)
BigDoubled(q, k) == IF k = 0 THEN q ELSE BigDoubled(BigTimes(q, 2), k - 1)

\* v = (2 * q + guard) * 2^(k - 1) + rest with sticky <=> rest # 0 (k >= 1),
\* or v = q (k = 0): q is halved until it has 53 bits, then rounded to the
\* nearest, a tie to the even q
RECURSIVE RoundedFrom(_, _, _, _)
RoundedFrom(q, guard, sticky, k) ==
    IF BigLess(q, TwoTo53)
    THEN LET up == guard = 1 /\ (sticky \/ Head(q) % 2 = 1)
         IN BigDoubled(IF up THEN BigAdd(q, << 1 >>) ELSE q, k)
    ELSE LET half == BigDivMod(q, 2)
         IN RoundedFrom(BigTrim(half.q), half.r, sticky \/ guard = 1, k + 1)

\* the double nearest to the whole number v, ties to even: v itself below
\* 2^53
RoundToDouble(v) ==
    IF BigLess(v, TwoTo53) THEN v ELSE RoundedFrom(v, 0, FALSE, 0)

\* ------------------------------------------------------------ IEEE values
Fin(n) == [k |-> "fin", neg |-> FALSE, v |-> n]
Signed(negative, n) == [k |-> "fin", neg |-> negative /\ n # << >>, v |-> n]
ZERO == Fin(<< >>)
ONE == Fin(<< 1 >>)
INF == [k |-> "inf", neg |-> FALSE, v |-> << >>]
NINF == [k |-> "ninf", neg |-> TRUE, v |-> << >>]
NAN == [k |-> "nan", neg |-> FALSE, v |-> << >>]

IsFinite(a) == a.k = "fin"

\* a + b, rounded to the nearest double
FAdd(a, b) ==
    IF a.k = "nan" \/ b.k = "nan" THEN NAN
    ELSE IF a.k = "fin" /\ b.k = "fin"
         THEN IF a.neg = b.neg
              THEN Signed(a.neg, RoundToDouble(BigAdd(a.v, b.v)))
              ELSE IF BigLeq(b.v, a.v)
                   THEN Signed(a.neg, RoundToDouble(BigSub(a.v, b.v)))
              ELSE Signed(b.neg, RoundToDouble(BigSub(b.v, a.v)))
    ELSE IF a.k = "fin" THEN b
    ELSE IF b.k = "fin" THEN a
    ELSE IF a.k = b.k THEN a
    ELSE NAN

\* -a
FNeg(a) ==
    IF a.k = "fin" THEN Signed(~a.neg, a.v)
    ELSE IF a.k = "inf" THEN NINF
    ELSE IF a.k = "ninf" THEN INF
    ELSE NAN

\* a - b
FSub(a, b) == FAdd(a, FNeg(b))

\* the exact product of the finite a and the natural magnitude m
FTimes(m, a) == Signed(a.neg, BigMul(a.v, m))

\* (num / den) * a for small positive integers num, den
FScale(num, den, a) ==
    IF a.k = "fin" /\ num # den
    THEN Signed(a.neg, BigDivRound(BigTimes(a.v, num), den))
    ELSE a

\* a >= 0 as the comparison of doubles decides it
FNonNegative(a) == a.k = "inf" \/ (a.k = "fin" /\ ~a.neg)

\* a <= b as the comparison of doubles decides it
FLeq(a, b) ==
    /\ a.k # "nan"
    /\ b.k # "nan"
    /\ \/ a.k = "ninf"
       \/ b.k = "inf"
       \/ /\ a.k = "fin"
          /\ b.k = "fin"
          /\ IF a.neg # b.neg THEN a.neg
             ELSE IF a.neg THEN BigLeq(b.v, a.v)
             ELSE BigLeq(a.v, b.v)

\* the elements of s from index i on, added to acc one after the other
RECURSIVE FSumFrom(_, _, _)
FSumFrom(s, i, acc) ==
    IF i > Len(s) THEN acc ELSE FSumFrom(s, i + 1, FAdd(acc, s[i]))

\* np.sum of a sequence of fewer than 8 doubles (0.0 for the empty array)
FSum(s) == FSumFrom(s, 1, ZERO)

\* the larger of two doubles, nan propagating as np.max does
FMax2(a, b) ==
    IF a.k = "nan" \/ b.k = "nan" THEN NAN
    ELSE IF FLeq(a, b) THEN b ELSE a

\* np.max of a non-empty sequence of doubles
RECURSIVE FMax(_)
FMax(s) == IF Len(s) = 1 THEN Head(s) ELSE FMax2(Head(s), FMax(Tail(s)))

\* a / b for doubles: the pair of the operands while both are finite and
\* b # 0, its value being the double nearest to num / den
FDiv(a, b) ==
    IF a.k = "nan" \/ b.k = "nan" THEN [k |-> "nan", num |-> ZERO, den |-> ONE]
    ELSE IF a.k = "fin" /\ b.k = "fin"
         THEN IF b.v # << >> THEN [k |-> "fin", num |-> a, den |-> b]
              ELSE IF a.v = << >>
                   THEN [k |-> "nan", num |-> ZERO, den |-> ONE]
              ELSE [k |-> IF a.neg THEN "ninf" ELSE "inf",
                    num |-> ZERO, den |-> ONE]
    ELSE IF a.k = "fin" THEN [k |-> "fin", num |-> ZERO, den |-> ONE]
    ELSE IF b.k = "fin"
         THEN [k |-> IF (a.k = "inf") = ~b.neg THEN "inf" ELSE "ninf",
               num |-> ZERO, den |-> ONE]
    ELSE [k |-> "nan", num |-> ZERO, den |-> ONE]

\* variant of RatioExceeds: the comparison is >= instead of >.  The doubles
\* just below t are t * (1 - 2^-54) apart, and a quotient half-way between
\* t and the one below is rounded to t: the rounded quotient is >= t exactly
\* when num / den >= t * (2^54 - 1) / 2^54
RatioAtLeast(r, tnum, tden) ==
    \/ r.k = "inf"
    \/ /\ r.k = "fin"
       /\ LET scaled_num == FTimes(BigTimes(TwoTo53, 2 * tden), r.num)
              scaled_den ==
                  FTimes(BigTimes(BigSub(BigTimes(TwoTo53, 2), << 1 >>), tnum),
                         r.den)
          IN IF r.den.neg THEN FLeq(scaled_num, scaled_den)
                          ELSE FLeq(scaled_den, scaled_num)

\* ratio > t as the comparison of doubles decides it, for a threshold
\* t = tnum / tden that is a power of two.  The quotient is rounded to the
\* nearest double first; the double next above t is t * (1 + 2^-52), and a
\* quotient half-way between the two is rounded to t, whose mantissa is
\* even: the rounded quotient is > t exactly when
\* num / den > t * (2^53 + 1) / 2^53
RatioExceeds(r, tnum, tden) ==
    \/ r.k = "inf"
    \/ /\ r.k = "fin"
       /\ LET scaled_num == FTimes(BigTimes(TwoTo53, tden), r.num)
              scaled_den ==
                  FTimes(BigTimes(BigAdd(TwoTo53, << 1 >>), tnum), r.den)
          IN IF r.den.neg THEN ~FLeq(scaled_den, scaled_num)
                          ELSE ~FLeq(scaled_num, scaled_den)

\* variant of FMean: the sum is not divided by the number of samples
FMean_SumOnly(s) == IF Len(s) = 0 THEN NAN ELSE FSum(s)

\* np.mean of a list of doubles: nan for the empty list
FMean(s) ==
    IF Len(s) = 0 THEN NAN
    ELSE LET total == FSum(s)
         IN IF total.k = "fin"
            THEN Signed(total.neg, BigDivRound(total.v, Len(s)))
            ELSE total

\* ---------------------------------------------------------- physical model
\* (2 * AttenuationScale)^5
ScaleBound == BigPower(BigTimes(AttenuationScale, 2), AlphaHalfDen)

\* q - 1/2 <= AttenuationScale * x^(-8/5) for x^8 = x8, decided exactly as
\* (2q - 1)^5 * x^8 <= (2 * AttenuationScale)^5; a product that has more
\* digits than the bound is not computed
NotAbove(q, x8) ==
    \/ q = << >>
    \/ LET odd == BigSub(BigTimes(q, 2), << 1 >>)
       IN /\ AlphaHalfDen * (Len(odd) - 1) + Len(x8) <= Len(ScaleBound)
          /\ BigLeq(BigMul(BigPower(odd, AlphaHalfDen), x8), ScaleBound)

\* the largest q in lo..hi with NotAbove(q, x8), found by bisection
RECURSIVE LargestNotAbove(_, _, _)
LargestNotAbove(x8, lo, hi) ==
    IF lo = hi THEN lo
    ELSE LET mid == BigDivSmall(BigAdd(BigAdd(lo, hi), << 1 >>), 2)
         IN IF NotAbove(mid, x8) THEN LargestNotAbove(x8, mid, hi)
            ELSE LargestNotAbove(x8, lo, BigSub(mid, << 1 >>))

\* x ** (-alpha / 2) for an integer x >= 1, in quanta: the exact value
\* AttenuationScale * x^(-8/5) rounded to the nearest whole number
PowNegAlphaHalfQuanta(x) ==
    LargestNotAbove(BigPower(BigDigits(x), AlphaHalfNum), << >>,
                    AttenuationScale)

\* variant of Linspace: one sample too many
Linspace_ExtraSample(stop, count) ==
    [i \in 1..(count + 1) |->
        IF count = 1 THEN 0 ELSE ((i - 1) * stop) \div (count - 1)]

\* np.linspace(0, stop, count) for count >= 0: sample i is
\* (i - 1) * stop / (count - 1), a whole number for the counts up to 3
Linspace(stop, count) ==
    [i \in 1..count |->
        IF count = 1 THEN 0 ELSE ((i - 1) * stop) \div (count - 1)]

\* the coordinates a draw can give, the positions of the sweep and the
\* station heights of the configurations
Coordinates == {spread * z : spread \in {0, ReferenceSpread}, z \in Deviates}

SweepPositions ==
    UNION {{Linspace(SweepStop, m)[i] : i \in 1..m} : m \in 1..MaxM}

Heights == {0, ReferenceHeight}

\* the squared 3D distances the model can produce, and x ** (-alpha / 2)
\* tabulated over them (the values of PowNegAlphaHalfQuanta, computed once)
PowArguments ==
    { (x - d) * (x - d) + y * y + h * h :
          x \in Coordinates, y \in Coordinates, d \in SweepPositions,
          h \in Heights } \ {0}

PowNegAlphaHalfTable == [x \in PowArguments |-> PowNegAlphaHalfQuanta(x)]

\* x ** (-alpha / 2) as a double: 0.0 ** (-1.6) is +infinity
PowNegAlphaHalf(x) ==
    IF x = 0 THEN INF
    ELSE IF x \in PowArguments THEN Fin(PowNegAlphaHalfTable[x])
    ELSE Fin(PowNegAlphaHalfQuanta(x))

\* l = kappa^-1 * (r^2 + z^2)^(-alpha/2); the first argument is r^2, the
\* square the function takes of the distance it is given, the second the
\* value of BASE_STATION_HEIGHT_METERS
get_path_loss_attenuation_factor(distance_2d_squared, height) ==
    LET distance_3d_squared == distance_2d_squared + height * height
    IN FScale(1, PATH_LOSS_CONSTANT_KAPPA,
              PowNegAlphaHalf(distance_3d_squared))

\* np.random.normal(0, spread, n) for n >= 0: n coordinates, each
\* spread * deviate
NormalDraws(spread, n) == [1..n -> {spread * z : z \in Deviates}]

\* (x - d)^2 + (y - 0)^2 for every station: the squares of distances_2d_meters
distances_2d_squared(xs, ys, d) ==
    [i \in DOMAIN xs |-> (xs[i] - d) * (xs[i] - d) + (ys[i] - 0) * (ys[i] - 0)]

\* Pr = Pt * l(r) for every station
received_powers_watts(xs, ys, d, height) ==
    LET r2 == distances_2d_squared(xs, ys, d)
    IN [i \in DOMAIN xs |->
           FScale(TRANSMIT_POWER_WATTS, 1,
                  get_path_loss_attenuation_factor(r2[i], height))]

\* variant of interference_watts: the operands are swapped
interference_watts_swapped(total, strongest) == FSub(strongest, total)

\* interference = total - strongest
interference_watts(total, strongest) == FSub(total, strongest)

\* SINR = strongest / (interference + noise); the third argument is the
\* value of NOISE_FLOOR_WATTS in the unit of the powers
signal_to_interference_noise_ratio(strongest, interference, noise_floor) ==
    FDiv(strongest, FAdd(interference, noise_floor))

\* the coverage decision: SINR > 0.5
coverage_success(sinr) == RatioExceeds(sinr, ThresholdNum, ThresholdDen)

\* S = (kappa / 4 pi) * P
electromagnetic_flux_density(total) ==
    LET scaled == FScale(PATH_LOSS_CONSTANT_KAPPA, 1, total)
    IN IF scaled.k = "fin"
       THEN Signed(scaled.neg,
                   BigShiftRound(BigMul(scaled.v, InverseFourPi),
                                 InverseFourPiDigits))
       ELSE scaled

\* lines 60-73: everything one iteration of the inner loop computes from the
\* received powers, for the noise floor in their unit
TrialFromPowers(powers, d, noise_floor) ==
    LET total == FSum(powers)
        strongest == FMax(powers)
        interference == interference_watts(total, strongest)
        sinr == signal_to_interference_noise_ratio(strongest, interference,
                                                   noise_floor)
    IN [xs |-> << >>, ys |-> << >>, distance |-> d, powers |-> powers,
        total |-> total, strongest |-> strongest,
        interference |-> interference, sinr |-> sinr,
        success |-> coverage_success(sinr),
        flux |-> electromagnetic_flux_density(total),
        samples_before |-> 0, successes_before |-> 0]

\* lines 53-73: everything one iteration of the inner loop computes from its
\* draw, for a station height
TrialComputed(xs, ys, d, height) ==
    [TrialFromPowers(received_powers_watts(xs, ys, d, height), d,
                     Fin(BigDigits(NOISE_FLOOR_WATTS)))
        EXCEPT !.xs = xs, !.ys = ys]

\* the largest number of stations with which a run has more than one trial
TabulatedStations == MaxDraws \div 2

\* the draws of up to TabulatedStations stations at the positions of the
\* sweep, and TrialComputed tabulated over them (its values, computed once)
TrialInputs ==
    UNION { { << xs, ys, d, h >> :
                  xs \in [1..n -> Coordinates], ys \in [1..n -> Coordinates],
                  d \in SweepPositions, h \in Heights } :
            n \in 1..TabulatedStations }

TrialTable ==
    [t \in TrialInputs |-> TrialComputed(t[1], t[2], t[3], t[4])]

\* lines 53-73 for the configured station height
TrialResult(xs, ys, d) ==
    IF d \in SweepPositions /\ Len(xs) <= TabulatedStations
    THEN TrialTable[<< xs, ys, d, BASE_STATION_HEIGHT_METERS >>]
    ELSE TrialComputed(xs, ys, d, BASE_STATION_HEIGHT_METERS)

\* variant of CoverageProbability: the divisor is one too small
CoverageProbability_OffByOne(successes, iterations) ==
    [num |-> successes, den |-> iterations - 1]

\* successes / K, the quotient of two Python integers (K # 0)
CoverageProbability(successes, iterations) ==
    [num |-> successes, den |-> iterations]

\* received powers a topology can produce, in units of 2^-94 W: the doubles
\* level * NOISE_FLOOR_WATTS
PowerSamples ==
    {Fin(RoundToDouble(BigTimes(NoiseFloorDouble, level))) :
         level \in 1..MaxPowerLevel}

NoTrial ==
    [xs |-> << >>, ys |-> << >>, distance |-> 0, powers |-> << >>,
     total |-> ZERO, strongest |-> ZERO, interference |-> ZERO,
     sinr |-> [k |-> "fin", num |-> ZERO, den |-> ONE], success |-> FALSE,
     flux |-> ZERO, samples_before |-> 0, successes_before |-> 0]

\* ------------------------------------------------------------------- Init
InitState ==
    /\ pc = "start"
    /\ error = "none"
    /\ user_distances_from_center = << >>
    /\ distance_index = 0
    /\ current_user_distance = 0
    /\ trial_index = 0
    /\ monte_carlo_flux_samples = << >>
    /\ monte_carlo_successful_connections = 0
    /\ mean_emf_flux_density_results = << >>
    /\ coverage_probability_results = << >>
    /\ trial = NoTrial
    /\ trial_log = << >>
    /\ result_sources = << >>
    /\ topologies_drawn = 0
    /\ trials_run = 0

\* N * K * M for positive sizes: the stations a run draws
StationsDrawn ==
    IF /\ NUMBER_OF_BASE_STATIONS > 0
       /\ NUMBER_OF_MONTE_CARLO_ITERATIONS > 0
       /\ NUMBER_OF_DISTANCE_SAMPLES > 0
    THEN NUMBER_OF_BASE_STATIONS * NUMBER_OF_MONTE_CARLO_ITERATIONS
             * NUMBER_OF_DISTANCE_SAMPLES
    ELSE 0

\* the configurations the sweep is written for: positive sizes, the
\* source's station height and spread
Init ==
    /\ NUMBER_OF_BASE_STATIONS \in 1..MaxN
    /\ NUMBER_OF_MONTE_CARLO_ITERATIONS \in 1..MaxK
    /\ NUMBER_OF_DISTANCE_SAMPLES \in 1..MaxM
    /\ StationsDrawn <= MaxDraws
    /\ BASE_STATION_HEIGHT_METERS = ReferenceHeight
    /\ CITY_DISTRIBUTION_SPREAD_METERS = ReferenceSpread
    /\ InitState

\* any value of the sizing constants, zero and negative included, and a
\* station height and a spread of 0
InitAnyConfig ==
    /\ NUMBER_OF_BASE_STATIONS \in (0 - 1)..MaxN
    /\ NUMBER_OF_MONTE_CARLO_ITERATIONS \in (0 - 1)..MaxK
    /\ NUMBER_OF_DISTANCE_SAMPLES \in (0 - 1)..MaxM
    /\ StationsDrawn <= MaxDraws
    /\ BASE_STATION_HEIGHT_METERS \in {0, ReferenceHeight}
    /\ CITY_DISTRIBUTION_SPREAD_METERS \in {0, ReferenceSpread}
    /\ InitState

\* ---------------------------------------------------------------- actions
\* variant of inner_loop_has_next: one iteration too many
inner_loop_has_next_inclusive ==
    trial_index <= NUMBER_OF_MONTE_CARLO_ITERATIONS

\* line 47: range(K) has another iteration to give
inner_loop_has_next == trial_index < NUMBER_OF_MONTE_CARLO_ITERATIONS

\* line 43: the sweep has another distance to give
outer_loop_has_next == distance_index < Len(user_distances_from_center)

\* lines 37-39: the sweep and the two empty result lists; np.linspace
\* raises on a negative count
Start ==
    /\ pc = "start"
    /\ IF NUMBER_OF_DISTANCE_SAMPLES < 0
       THEN /\ pc' = "error"
            /\ error' = "ValueError"
            /\ UNCHANGED << user_distances_from_center,
                            mean_emf_flux_density_results,
                            coverage_probability_results >>
       ELSE /\ user_distances_from_center' =
                   Linspace(SweepStop, NUMBER_OF_DISTANCE_SAMPLES)
            /\ mean_emf_flux_density_results' = << >>
            /\ coverage_probability_results' = << >>
            /\ pc' = "outer"
            /\ UNCHANGED error
    /\ UNCHANGED << config, distance_index, current_user_distance,
                    trial_index, monte_carlo_flux_samples,
                    monte_carlo_successful_connections, trial, trial_log,
                    result_sources, topologies_drawn, trials_run >>

\* variant of BeginDistance: the accumulators are not reset
BeginDistance_KeepsAccumulators ==
    /\ pc = "outer"
    /\ outer_loop_has_next
    /\ current_user_distance' = user_distances_from_center[distance_index + 1]
    /\ trial_index' = 0
    /\ trial_log' = << >>
    /\ pc' = "inner"
    /\ UNCHANGED << config, error, user_distances_from_center, distance_index,
                    monte_carlo_flux_samples,
                    monte_carlo_successful_connections,
                    mean_emf_flux_density_results,
                    coverage_probability_results, trial, result_sources,
                    topologies_drawn, trials_run >>

\* lines 43-45: the next distance of the sweep, fresh accumulators
BeginDistance ==
    /\ pc = "outer"
    /\ outer_loop_has_next
    /\ current_user_distance' = user_distances_from_center[distance_index + 1]
    /\ monte_carlo_flux_samples' = << >>
    /\ monte_carlo_successful_connections' = 0
    /\ trial_index' = 0
    /\ trial_log' = << >>
    /\ pc' = "inner"
    /\ UNCHANGED << config, error, user_distances_from_center, distance_index,
                    mean_emf_flux_density_results,
                    coverage_probability_results, trial, result_sources,
                    topologies_drawn, trials_run >>

\* lines 68-74 and the loop counter: the trial's values are recorded, the
\* success counter moves on a success, the flux sample is appended
CompleteTrial(r) ==
    /\ trial' = [r EXCEPT
                   !.samples_before = Len(monte_carlo_flux_samples),
                   !.successes_before = monte_carlo_successful_connections]
    /\ monte_carlo_successful_connections' =
           IF r.success THEN monte_carlo_successful_connections + 1
                        ELSE monte_carlo_successful_connections
    /\ monte_carlo_flux_samples' = Append(monte_carlo_flux_samples, r.flux)
    /\ trial_log' = Append(trial_log,
                           [distance |-> current_user_distance,
                            success |-> r.success, flux |-> r.flux])
    /\ trial_index' = trial_index + 1
    /\ trials_run' = trials_run + 1
    /\ UNCHANGED << pc, error >>

\* the trial stops at an exception
RaiseInTrial(exception) ==
    /\ pc' = "error"
    /\ error' = exception
    /\ UNCHANGED << trial, trial_index, trial_log, trials_run,
                    monte_carlo_flux_samples,
                    monte_carlo_successful_connections >>

\* lines 47-74: one Monte Carlo trial; np.random.normal raises on a negative
\* size, np.max on an empty array
RunTrial ==
    /\ pc = "inner"
    /\ inner_loop_has_next
    /\ IF NUMBER_OF_BASE_STATIONS < 0
       THEN /\ RaiseInTrial("ValueError")
            /\ UNCHANGED topologies_drawn
       ELSE \E xs \in NormalDraws(CITY_DISTRIBUTION_SPREAD_METERS,
                                  NUMBER_OF_BASE_STATIONS),
               ys \in NormalDraws(CITY_DISTRIBUTION_SPREAD_METERS,
                                  NUMBER_OF_BASE_STATIONS) :
               /\ topologies_drawn' = topologies_drawn + 1
               /\ IF NUMBER_OF_BASE_STATIONS = 0
                  THEN RaiseInTrial("ValueError")
                  ELSE CompleteTrial(
                           TrialResult(xs, ys, current_user_distance))
    /\ UNCHANGED << config, user_distances_from_center, distance_index,
                    current_user_distance, mean_emf_flux_density_results,
                    coverage_probability_results, result_sources >>

\* lines 60-74 of one Monte Carlo trial, on received powers that are given
\* as doubles instead of computed from a draw
RunTrialOnPowers ==
    /\ pc = "inner"
    /\ inner_loop_has_next
    /\ \E powers \in [1..NUMBER_OF_BASE_STATIONS -> PowerSamples] :
           /\ topologies_drawn' = topologies_drawn + 1
           /\ CompleteTrial(TrialFromPowers(powers, current_user_distance,
                                            Fin(NoiseFloorDouble)))
    /\ UNCHANGED << config, user_distances_from_center, distance_index,
                    current_user_distance, mean_emf_flux_density_results,
                    coverage_probability_results, result_sources >>

\* lines 76-77: the mean is appended, then the quotient successes / K, which
\* raises for K = 0
FinishDistance ==
    /\ pc = "inner"
    /\ ~inner_loop_has_next
    /\ mean_emf_flux_density_results' =
           Append(mean_emf_flux_density_results,
                  FMean(monte_carlo_flux_samples))
    /\ IF NUMBER_OF_MONTE_CARLO_ITERATIONS = 0
       THEN /\ pc' = "error"
            /\ error' = "ZeroDivisionError"
            /\ UNCHANGED << coverage_probability_results, result_sources,
                            distance_index >>
       ELSE /\ coverage_probability_results' =
                   Append(coverage_probability_results,
                          CoverageProbability(
                              monte_carlo_successful_connections,
                              NUMBER_OF_MONTE_CARLO_ITERATIONS))
            /\ result_sources' =
                   Append(result_sources,
                          {trial_log[i].distance : i \in DOMAIN trial_log})
            /\ distance_index' = distance_index + 1
            /\ pc' = "outer"
            /\ UNCHANGED error
    /\ UNCHANGED << config, user_distances_from_center,
                    current_user_distance, trial_index,
                    monte_carlo_flux_samples,
                    monte_carlo_successful_connections, trial, trial_log,
                    topologies_drawn, trials_run >>

\* line 79: the sweep is exhausted, the three sequences are returned
Return ==
    /\ pc = "outer"
    /\ ~outer_loop_has_next
    /\ pc' = "done"
    /\ UNCHANGED << config, error, user_distances_from_center, distance_index,
                    current_user_distance, trial_index,
                    monte_carlo_flux_samples,
                    monte_carlo_successful_connections,
                    mean_emf_flux_density_results,
                    coverage_probability_results, trial, trial_log,
                    result_sources, topologies_drawn, trials_run >>

Next == Start \/ BeginDistance \/ RunTrial \/ FinishDistance \/ Return

\* the sweep with lines 60-74 applied to given received powers
NextOnPowers ==
    Start \/ BeginDistance \/ RunTrialOnPowers \/ FinishDistance \/ Return

Spec == Init /\ [][Next]_vars

SpecAnyConfig == InitAnyConfig /\ [][Next]_vars

SpecAnyPowers == Init /\ [][NextOnPowers]_vars

\* ----------------------------------------------------------------- claims
ConfigIsValid ==
    /\ NUMBER_OF_BASE_STATIONS > 0
    /\ NUMBER_OF_MONTE_CARLO_ITERATIONS > 0
    /\ NUMBER_OF_DISTANCE_SAMPLES > 0

TrialHasRun == trials_run > 0

SuccessesLogged == Cardinality({j \in DOMAIN trial_log : trial_log[j].success})

\* the sum of the magnitudes of the first n logged flux samples
RECURSIVE SumOfLoggedFlux(_)
SumOfLoggedFlux(n) ==
    IF n = 0 THEN << >>
    ELSE BigAdd(SumOfLoggedFlux(n - 1), trial_log[n].flux.v)

\* the magnitudes of the first n powers added from left to right, every
\* partial sum being rounded to the nearest double
RECURSIVE SumOfPowers(_, _)
SumOfPowers(powers, n) ==
    IF n = 0 THEN << >>
    ELSE RoundToDouble(BigAdd(SumOfPowers(powers, n - 1), powers[n].v))

NoiseFloor == BigDigits(NOISE_FLOOR_WATTS)

\* the powers of the latest trial are finite doubles >= 0, total is their
\* sum as np.sum computes it and strongest their maximum
TrialPowersSummed ==
    /\ \A i \in DOMAIN trial.powers :
           /\ IsFinite(trial.powers[i]) /\ ~trial.powers[i].neg
           /\ RoundToDouble(trial.powers[i].v) = trial.powers[i].v
    /\ trial.total = Fin(SumOfPowers(trial.powers, Len(trial.powers)))
    /\ \E i \in DOMAIN trial.powers : trial.strongest = trial.powers[i]
    /\ \A i \in DOMAIN trial.powers :
           BigLeq(trial.powers[i].v, trial.strongest.v)

\* (total - strongest) + noise floor of the latest trial in units of
\* 2^-94 W, the difference and the sum each rounded to the nearest double
TrialDenominator ==
    RoundToDouble(
        BigAdd(RoundToDouble(BigSub(trial.total.v, trial.strongest.v)),
               NoiseFloorDouble))

\* C1: when run_simulation returns, the three sequences have the length M
\* of the sweep, entry i of the flux and coverage results was computed from
\* the trials run at distances[i] and from no others, and the distances
\* ascend.
C1_ResultsAligned ==
    pc = "done" =>
        /\ Len(user_distances_from_center) = NUMBER_OF_DISTANCE_SAMPLES
        /\ Len(mean_emf_flux_density_results) = NUMBER_OF_DISTANCE_SAMPLES
        /\ Len(coverage_probability_results) = NUMBER_OF_DISTANCE_SAMPLES
        /\ Len(result_sources) = NUMBER_OF_DISTANCE_SAMPLES
        /\ \A i \in 1..NUMBER_OF_DISTANCE_SAMPLES :
               result_sources[i] = {user_distances_from_center[i]}
        /\ \A i \in 1..(NUMBER_OF_DISTANCE_SAMPLES - 1) :
               user_distances_from_center[i]
                   < user_distances_from_center[i + 1]

C1_Witness ==
    /\ pc = "done"
    /\ NUMBER_OF_DISTANCE_SAMPLES >= 2
    /\ NUMBER_OF_MONTE_CARLO_ITERATIONS >= 2
    /\ Len(coverage_probability_results) >= 2
    /\ user_distances_from_center[2] = SweepStop

\* C2: with a number of base stations, of iterations or of distance samples
\* that is <= 0 the sweep does no simulation work: it never enters the
\* Monte Carlo loop, draws no topology, appends no result, does not return
\* normally, and the error it ends in is a ConfigurationError.
C2_FailsFastOnBadConfig ==
    ~ConfigIsValid =>
        /\ pc \notin {"inner", "done"}
        /\ pc = "error" => error = "ConfigurationError"
        /\ topologies_drawn = 0
        /\ trials_run = 0
        /\ mean_emf_flux_density_results = << >>
        /\ coverage_probability_results = << >>

\* C3: every coverage probability is in [0, 1] and every mean flux is >= 0;
\* the success counter satisfies 0 <= successes <= trials completed <= K,
\* and every accumulated flux sample is >= 0.
C3_RangesHold ==
    /\ \A i \in DOMAIN coverage_probability_results :
           /\ coverage_probability_results[i].den > 0
           /\ 0 <= coverage_probability_results[i].num
           /\ coverage_probability_results[i].num
                  <= coverage_probability_results[i].den
    /\ \A i \in DOMAIN mean_emf_flux_density_results :
           FNonNegative(mean_emf_flux_density_results[i])
    /\ 0 <= monte_carlo_successful_connections
    /\ monte_carlo_successful_connections <= trial_index
    /\ trial_index <= NUMBER_OF_MONTE_CARLO_ITERATIONS
    /\ \A j \in DOMAIN monte_carlo_flux_samples :
           FNonNegative(monte_carlo_flux_samples[j])

C3_Witness ==
    /\ pc = "done"
    /\ \E i, j \in DOMAIN coverage_probability_results :
           /\ coverage_probability_results[i].num
                  = coverage_probability_results[i].den
           /\ coverage_probability_results[j].num = 0
    /\ \E i \in DOMAIN mean_emf_flux_density_results :
           mean_emf_flux_density_results[i].v # << >>

\* C4: once a distance sample is finished, its coverage probability is the
\* number of its K trials that succeeded over K, and its mean flux is the
\* arithmetic mean (to the nearest quantum) of K flux samples, sample j
\* being the flux of trial j of that distance.
C4_PerDistanceAggregates ==
    (pc \in {"outer", "done"} /\ distance_index >= 1) =>
        LET i == distance_index
            K == NUMBER_OF_MONTE_CARLO_ITERATIONS
            twice_sum == BigTimes(SumOfLoggedFlux(K), 2)
            twice_mean_K ==
                BigTimes(mean_emf_flux_density_results[i].v, 2 * K)
        IN /\ Len(coverage_probability_results) = i
           /\ Len(mean_emf_flux_density_results) = i
           /\ Len(trial_log) = K
           /\ Len(monte_carlo_flux_samples) = K
           /\ \A j \in 1..K :
                  monte_carlo_flux_samples[j] = trial_log[j].flux
           /\ coverage_probability_results[i].num = SuccessesLogged
           /\ coverage_probability_results[i].den = K
           /\ IsFinite(mean_emf_flux_density_results[i])
           /\ ~mean_emf_flux_density_results[i].neg
           /\ BigLeq(twice_mean_K, BigAdd(twice_sum, BigDigits(K)))
           /\ BigLess(twice_sum, BigAdd(twice_mean_K, BigDigits(K)))

C4_Witness ==
    /\ pc = "outer"
    /\ distance_index >= 1
    /\ NUMBER_OF_MONTE_CARLO_ITERATIONS >= 2
    /\ SuccessesLogged = 1
    /\ trial_log[1].flux # trial_log[2].flux

\* C5: a trial is a coverage success if and only if
\* strongest / (total - strongest + noise floor) > 1/2, total being the sum
\* of the N received powers and strongest their maximum, each of total, the
\* difference and the denominator being the double the code computes;
\* equality with the threshold is not a success, and the counter moves by
\* one exactly on a success.
C5_StrictThreshold ==
    TrialHasRun =>
        /\ TrialPowersSummed
        /\ trial.success <=>
               BigLess(BigTimes(TrialDenominator, ThresholdNum),
                       BigTimes(trial.strongest.v, ThresholdDen))
        /\ (pc = "inner" /\ trial_index >= 1) =>
               monte_carlo_successful_connections
                   = trial.successes_before + (IF trial.success THEN 1 ELSE 0)

C5_Witness ==
    /\ TrialHasRun
    /\ BigTimes(trial.strongest.v, ThresholdDen)
           = BigTimes(TrialDenominator, ThresholdNum)
    /\ ~trial.success
    /\ pc = "inner"
    /\ trial_index >= 1
    /\ monte_carlo_successful_connections = trial.successes_before

\* C6: a distance sample starts with an empty flux accumulator and a zero
\* success counter whatever the previous sample left; a trial appends one
\* sample and leaves the earlier samples and all results alone; and two
\* consecutive trials with the same draw at the same distance have the same
\* success flag and flux, whatever the accumulators held.
C6_NoCarriedState ==
    [][ /\ (pc = "outer" /\ pc' = "inner") =>
               /\ monte_carlo_flux_samples' = << >>
               /\ monte_carlo_successful_connections' = 0
               /\ trial_index' = 0
               /\ mean_emf_flux_density_results'
                      = mean_emf_flux_density_results
               /\ coverage_probability_results'
                      = coverage_probability_results
        /\ (trials_run' # trials_run) =>
               /\ Len(monte_carlo_flux_samples')
                      = Len(monte_carlo_flux_samples) + 1
               /\ SubSeq(monte_carlo_flux_samples', 1,
                         Len(monte_carlo_flux_samples))
                      = monte_carlo_flux_samples
               /\ monte_carlo_flux_samples'[Len(monte_carlo_flux_samples')]
                      = trial'.flux
               /\ mean_emf_flux_density_results'
                      = mean_emf_flux_density_results
               /\ coverage_probability_results'
                      = coverage_probability_results
               /\ user_distances_from_center' = user_distances_from_center
               /\ current_user_distance' = current_user_distance
               /\ ( /\ TrialHasRun
                    /\ trial'.xs = trial.xs
                    /\ trial'.ys = trial.ys
                    /\ trial'.distance = trial.distance ) =>
                      /\ trial'.success = trial.success
                      /\ trial'.flux = trial.flux
      ]_vars

C6_Witness ==
    /\ pc = "inner"
    /\ distance_index >= 1
    /\ trial_index = 0
    /\ monte_carlo_flux_samples = << >>
    /\ monte_carlo_successful_connections = 0
    /\ TrialHasRun
    /\ trial.success
    /\ \E i \in DOMAIN coverage_probability_results :
           coverage_probability_results[i].num >= 1

\* C8: a trial whose SINR or flux is not finite is not included in the
\* accumulation unless the run fails: its flux is not among the samples, and
\* no mean flux that is returned is non-finite.
C8_NonFiniteExcluded ==
    /\ ( /\ TrialHasRun
         /\ pc # "error"
         /\ ~(IsFinite(trial.sinr) /\ IsFinite(trial.flux)) ) =>
             Len(monte_carlo_flux_samples) <= trial.samples_before
    /\ pc = "done" =>
           \A i \in DOMAIN mean_emf_flux_density_results :
               IsFinite(mean_emf_flux_density_results[i])

\* the steps run_simulation still has to take: per remaining distance one
\* loop entry, K trials and one aggregation, then the return
RemainingSteps ==
    LET M == NUMBER_OF_DISTANCE_SAMPLES
        K == NUMBER_OF_MONTE_CARLO_ITERATIONS
    IN IF pc = "start" THEN M * (K + 2) + 2
       ELSE IF pc = "outer" THEN (M - distance_index) * (K + 2) + 1
       ELSE IF pc = "inner"
            THEN (M - distance_index - 1) * (K + 2) + (K - trial_index) + 2
       ELSE 0

\* C9: run_simulation terminates: every step strictly decreases the number
\* of steps that remain, which never drops below 0, no step raises, and the
\* run stops only when it has returned.  When it returns it has executed
\* exactly M x K trials and drawn exactly M x K topologies, each of N
\* x-coordinates and N y-coordinates; no trial is retried or skipped (trial
\* number trials_run is trial trial_index of distance distance_index).
C9_TerminatesAfterMK ==
    /\ [][RemainingSteps' < RemainingSteps]_vars
    /\ [](RemainingSteps >= 0)
    /\ [](RemainingSteps = 0 <=> pc = "done")
    /\ [](pc # "error")
    /\ [](pc = "done" =>
             /\ trials_run = NUMBER_OF_DISTANCE_SAMPLES
                                 * NUMBER_OF_MONTE_CARLO_ITERATIONS
             /\ topologies_drawn = NUMBER_OF_DISTANCE_SAMPLES
                                       * NUMBER_OF_MONTE_CARLO_ITERATIONS)
    /\ [](TrialHasRun =>
             /\ Len(trial.xs) = NUMBER_OF_BASE_STATIONS
             /\ Len(trial.ys) = NUMBER_OF_BASE_STATIONS
             /\ topologies_drawn = trials_run
             /\ trials_run = distance_index * NUMBER_OF_MONTE_CARLO_ITERATIONS
                                 + (IF pc = "inner" THEN trial_index ELSE 0))

C9_Witness ==
    /\ pc = "done"
    /\ NUMBER_OF_DISTANCE_SAMPLES >= 2
    /\ NUMBER_OF_BASE_STATIONS >= 2
    /\ trials_run = NUMBER_OF_DISTANCE_SAMPLES
                        * NUMBER_OF_MONTE_CARLO_ITERATIONS
    /\ trials_run >= 2

\* C10: in every trial the received powers are >= 0 and strongest <= total,
\* so the interference total - strongest is >= 0, the SINR denominator
\* interference + noise floor is > 0 and the SINR is >= 0; with one station
\* the interference is 0 and the SINR is strongest / noise floor.
C10_SinrWellDefined ==
    TrialHasRun =>
        /\ \A i \in DOMAIN trial.powers :
               IsFinite(trial.powers[i]) /\ ~trial.powers[i].neg
        /\ IsFinite(trial.strongest) /\ IsFinite(trial.total)
        /\ ~trial.strongest.neg /\ ~trial.total.neg
        /\ BigLeq(trial.strongest.v, trial.total.v)
        /\ trial.interference
               = Fin(BigSub(trial.total.v, trial.strongest.v))
        /\ trial.sinr.k = "fin"
        /\ trial.sinr.den = Fin(BigAdd(trial.interference.v, NoiseFloor))
        /\ trial.sinr.den.v # << >>
        /\ trial.sinr.num = trial.strongest
        /\ NUMBER_OF_BASE_STATIONS = 1 =>
               /\ trial.interference = ZERO
               /\ trial.sinr.den = Fin(NoiseFloor)

C10_Witness ==
    /\ TrialHasRun
    /\ NUMBER_OF_BASE_STATIONS >= 2
    /\ trial.interference.v # << >>
    /\ BigLess(trial.interference.v, trial.strongest.v)

====
